---- MODULE Spec2Model ----
(***************************************************************************)
(* A model of roteador.py: a distance-vector router.  Each router keeps a  *)
(* routing table (an insertion-ordered dict: key -> {cost, next_hop}), a   *)
(* background thread that periodically summarizes the table and posts it   *)
(* to every neighbor, and a request handler that merges the tables it      *)
(* receives with the Bellman-Ford rule.                                    *)
(*                                                                         *)
(* Data model.  A table key is a string in the program.  Here a key is a   *)
(* record [kind, name, addr, plen]:                                        *)
(*   kind = "opaque": a string ipaddress.ip_network rejects (ValueError),  *)
(*                    such as a neighbor's "host:port"; name is the string *)
(*   kind = "v4"/"v6": the string "addr/plen" of that IP version; addr is  *)
(*                    an AddrBits-bit address and may have host bits set   *)
(*                    ("10.0.0.5/25"), which strict=False masks away.      *)
(* A dict is a sequence of items with distinct keys, in insertion order.   *)
(***************************************************************************)
EXTENDS Integers, Sequences, FiniteSets, TLC

\* Width of an address in bits: networks have prefix lengths 0..AddrBits.
AddrBits == 3

\* The marker the summarizer writes as next_hop of an aggregate.
SUMARIZED == "SUMARIZED"

RECURSIVE Pow2(_)
Pow2(n) == IF n = 0 THEN 1 ELSE 2 * Pow2(n - 1)

NetKey(a, p) == [kind |-> "v4", name |-> "", addr |-> a, plen |-> p]
Net6Key(a, p) == [kind |-> "v6", name |-> "", addr |-> a, plen |-> p]
OpaqueKey(s) == [kind |-> "opaque", name |-> s, addr |-> 0, plen |-> 0]

Info(c, h) == [cost |-> c, next_hop |-> h]
Item(k, i) == [key |-> k, info |-> i]

(***************************************************************************)
(* dict operations on a sequence of items with distinct keys               *)
(*                                                                         *)
(* Where an operator below hands a computed table on to a recursive call,  *)
(* it first binds it to a name ranging over a one-element set              *)
(* (CHOOSE res \in {F(t) : t \in {e}} : TRUE is F(e)), so that the table   *)
(* is computed once however often the callee reads it.                     *)
(***************************************************************************)
Range(s) == {s[i] : i \in 1..Len(s)}
Keys(d) == {d[i].key : i \in 1..Len(d)}
Has(d, k) == \E i \in 1..Len(d) : d[i].key = k
IndexOf(d, k) == CHOOSE i \in 1..Len(d) : d[i].key = k
Get(d, k) == d[IndexOf(d, k)].info
\* d[k] = v: an existing key keeps its position, a new key goes last.
Put(d, k, v) ==
    IF Has(d, k)
    THEN [d EXCEPT ![IndexOf(d, k)] = Item(k, v)]
    ELSE Append(d, Item(k, v))

(***************************************************************************)
(* ipaddress                                                               *)
(***************************************************************************)
\* ip_network(s, strict=False) raises ValueError on these keys.
RaisesValueError(k) == k.kind = "opaque"

\* The address with all but its first p bits cleared.
Mask(a, p) == a - (a % Pow2(AddrBits - p))

\* ip_network(s, strict=False): the network of the key, host bits masked.
IpNetwork(k) == [kind |-> k.kind, name |-> "", addr |-> Mask(k.addr, k.plen), plen |-> k.plen]

\* str(net): the key that names the network.
Str(net) == net

\* net.supernet(): one bit shorter; the /0 network is its own supernet.
Supernet(n) ==
    IF n.plen = 0 THEN n
    ELSE [n EXCEPT !.addr = Mask(n.addr, n.plen - 1), !.plen = n.plen - 1]

\* a.subnet_of(b), for networks of one version.
SubnetOf(a, b) == b.plen <= a.plen /\ Mask(a.addr, b.plen) = b.addr

\* collapse_addresses raises TypeError on networks of both versions.
MixedVersions(nets) == \E a, b \in nets : a.kind # b.kind

\* One round of merging: both halves of a block present -> the block.
Merged(nets) ==
    nets \cup {Supernet(a) : a \in {x \in nets : \E y \in nets :
                   y # x /\ y.plen = x.plen /\ Supernet(y) = Supernet(x)}}

RECURSIVE MergeClosure(_)
MergeClosure(nets) ==
    LET next == Merged(nets)
    IN IF next = nets THEN nets
       ELSE CHOOSE res \in {MergeClosure(m) : m \in {next}} : TRUE

\* The blocks of the closure no other block contains.
Maximal(nets) ==
    {a \in nets : ~ \E b \in nets : b # a /\ SubnetOf(a, b)}

\* sorted(): by network address, then by prefix length.
NetLess(a, b) == a.addr < b.addr \/ (a.addr = b.addr /\ a.plen < b.plen)

RECURSIVE SortNets(_)
SortNets(nets) ==
    IF nets = {} THEN <<>>
    ELSE LET m == CHOOSE a \in nets : \A b \in nets \ {a} : NetLess(a, b)
         IN CHOOSE res \in {<<m>> \o SortNets(rest) : rest \in {nets \ {m}}} : TRUE

\* list(ipaddress.collapse_addresses(all_networks)), all of one version.
CollapseAddresses(nets) ==
    CHOOSE res \in
        {SortNets(blocks) :
             blocks \in {Maximal(c) : c \in {MergeClosure(n) : n \in {nets}}}} : TRUE

(***************************************************************************)
(* Route summarization (send_updates_to_neighbors, the try block)          *)
(***************************************************************************)
\* The key an item is filed under in `mapping`: its network, or the string
\* itself when it does not parse.
MappingKey(k) == IF RaisesValueError(k) THEN k ELSE IpNetwork(k)

\* mapping, after the loop over the items: a later item that parses to the
\* network of an earlier one overwrites its info.
RECURSIVE BuildMapping(_, _)
BuildMapping(items, mapping) ==
    IF items = <<>> THEN mapping
    ELSE CHOOSE res \in
             {BuildMapping(Tail(items), m) :
                  m \in {Put(mapping, MappingKey(Head(items).key), Head(items).info)}} : TRUE

\* all_networks, as a set (collapse_addresses drops duplicates).
AllNetworks(items) ==
    {IpNetwork(items[i].key) : i \in {j \in 1..Len(items) : ~RaisesValueError(items[j].key)}}

SetMin(S) == CHOOSE m \in S : \A x \in S : m <= x

\* What is sent for one block of the collapsed list.
SummaryInfo(net, mapping) ==
    IF Has(mapping, net)
    THEN Get(mapping, net)
    ELSE Info(SetMin({Get(mapping, n).cost :
                        n \in {k \in Keys(mapping) : ~RaisesValueError(k) /\ SubnetOf(k, net)}}),
              SUMARIZED)

\* The summarization raises (TypeError from collapse_addresses).
SummarizeRaises(items) == MixedVersions(AllNetworks(items))

\* tabela_para_enviar when nothing raises: one item per collapsed block, in
\* the order of the collapsed list.  Keys of `mapping` that are not networks
\* are in no block, so they are not sent.
Summarized(items) ==
    CHOOSE res \in
        {[i \in 1..Len(blocks) |-> Item(Str(blocks[i]), SummaryInfo(blocks[i], mapping))] :
             mapping \in {BuildMapping(items, <<>>)},
             blocks \in {CollapseAddresses(AllNetworks(items))}} : TRUE

\* Mutant of TabelaParaEnviar: when summarizing raises, the networks of the
\* first version are summarized and the others left out.
TabelaFirstVersion(items, table) ==
    IF SummarizeRaises(items)
    THEN Summarized(SelectSeq(items, LAMBDA it : it.key.kind = items[1].key.kind))
    ELSE Summarized(items)

\* tabela_para_enviar: the summary of the items read, or, when summarizing
\* raised, dict(self.routing_table): a copy of the table as it is now.
TabelaParaEnviar(items, table) ==
    IF SummarizeRaises(items) THEN table ELSE Summarized(items)

(***************************************************************************)
(* Bellman-Ford merge (receive_update)                                     *)
(***************************************************************************)
\* neighbors.get(sender_address): the link cost; NoLink stands for None.
NoLink == -1
LinkCost(nbrs, sender) ==
    IF Has(nbrs, sender) THEN Get(nbrs, sender) ELSE NoLink

\* info["cost"] raises KeyError when the entry carries no cost.
HasCost(info) == "cost" \in DOMAIN info

\* Mutants of Accepts: a tie replaces the entry; the sender's own route is
\* only replaced by a cheaper one.
AcceptsTie(table, sender, new_cost, network) ==
    \/ ~Has(table, network)
    \/ new_cost <= Get(table, network).cost
    \/ Get(table, network).next_hop = sender

AcceptsCheaperOnly(table, sender, new_cost, network) ==
    \/ ~Has(table, network)
    \/ new_cost < Get(table, network).cost

\* Mutant of Accepts: every advertised route is taken.
AcceptsAny(table, sender, new_cost, network) == TRUE

\* The condition under which one entry of the sender's table is written.
Accepts(table, sender, new_cost, network) ==
    \/ ~Has(table, network)
    \/ new_cost < Get(table, network).cost
    \/ Get(table, network).next_hop = sender

\* Mutant of MergeEntry: the advertised cost is stored without the link cost.
MergeEntryNoLink(table, sender, link_cost, network, info) ==
    IF Accepts(table, sender, link_cost + info.cost, network)
    THEN Put(table, network, Info(info.cost, sender))
    ELSE table

\* Mutant of MergeEntry: a route through the sender that the sender now
\* advertises at no better cost is withdrawn.
MergeEntryWithdraw(table, sender, link_cost, network, info) ==
    LET new_cost == link_cost + info.cost
    IN IF ~Has(table, network) \/ new_cost < Get(table, network).cost
       THEN Put(table, network, Info(new_cost, sender))
       ELSE IF Get(table, network).next_hop = sender
       THEN SelectSeq(table, LAMBDA it : it.key # network)
       ELSE table

\* Mutant of MergeEntry: the next_hop the sender wrote is stored.
MergeEntryKeepsHop(table, sender, link_cost, network, info) ==
    LET new_cost == link_cost + info.cost
    IN IF Accepts(table, sender, new_cost, network)
       THEN Put(table, network, Info(new_cost, info.next_hop))
       ELSE table

\* One iteration of the loop over sender_table.
MergeEntry(table, sender, link_cost, network, info) ==
    LET new_cost == link_cost + info.cost
    IN IF Accepts(table, sender, new_cost, network)
       THEN Put(table, network, Info(new_cost, sender))
       ELSE table

\* Mutant of MergeLoop: the flag tells whether the table is another one.
RECURSIVE MergeLoopCompares(_, _, _, _, _)
MergeLoopCompares(table, sender, link_cost, items, happened) ==
    IF items = <<>>
    THEN [status |-> 200, table |-> table, update_happened |-> happened]
    ELSE IF ~HasCost(Head(items).info)
    THEN [status |-> 500, table |-> table, update_happened |-> happened]
    ELSE CHOOSE res \in
             {MergeLoopCompares(t, sender, link_cost, Tail(items), happened \/ t # table) :
                  t \in {MergeEntry(table, sender, link_cost,
                                    Head(items).key, Head(items).info)}} : TRUE

\* The loop over sender_table: it stops at the first entry without a cost
\* (the KeyError ends the request with status 500), with the entries before
\* it already merged.
RECURSIVE MergeLoop(_, _, _, _, _)
MergeLoop(table, sender, link_cost, items, happened) ==
    IF items = <<>>
    THEN [status |-> 200, table |-> table, update_happened |-> happened]
    ELSE IF ~HasCost(Head(items).info)
    THEN [status |-> 500, table |-> table, update_happened |-> happened]
    ELSE LET h == Head(items)
             new_cost == link_cost + h.info.cost
         IN CHOOSE res \in
                {MergeLoop(t, sender, link_cost, Tail(items),
                           happened \/ Accepts(table, sender, new_cost, h.key)) :
                     t \in {MergeEntry(table, sender, link_cost, h.key, h.info)}} : TRUE

\* Mutants of Rejects: any sender is merged; the shape of the body is not
\* checked.
RejectsKnownOnly(nbrs, req) ==
    \/ req.json_empty
    \/ req.sender_address = ""
    \/ ~req.table_is_dict

RejectsNoShape(nbrs, req) ==
    \/ req.json_empty
    \/ LinkCost(nbrs, req.sender_address) = NoLink

\* The checks before the loop: an empty body, no sender_address, a
\* routing_table that is not a dict, a sender that is no neighbor.
Rejects(nbrs, req) ==
    \/ req.json_empty
    \/ req.sender_address = ""
    \/ ~req.table_is_dict
    \/ LinkCost(nbrs, req.sender_address) = NoLink

\* The whole handler: the response status, the table it leaves and the flag.
ReceiveUpdate(table, nbrs, req) ==
    IF Rejects(nbrs, req)
    THEN [status |-> 400, table |-> table, update_happened |-> FALSE]
    ELSE MergeLoop(table, req.sender_address,
                   LinkCost(nbrs, req.sender_address), req.routing_table, FALSE)

(***************************************************************************)
(* Router.__init__                                                         *)
(***************************************************************************)
\* The table after construction: the local network, then one entry per
\* neighbor (a neighbor whose address equals an earlier key overwrites it).
RECURSIVE AddNeighbors(_, _)
AddNeighbors(table, nbrs) ==
    IF nbrs = <<>> THEN table
    ELSE CHOOSE res \in
             {AddNeighbors(t, Tail(nbrs)) :
                  t \in {Put(table, OpaqueKey(Head(nbrs).key),
                             Info(Head(nbrs).info, Head(nbrs).key))}} : TRUE

\* Mutant of InitialTable: the local network is left out.
InitialTableNoNetwork(address, network, nbrs) == AddNeighbors(<<>>, nbrs)

InitialTable(address, network, nbrs) ==
    AddNeighbors(<<Item(network, Info(0, address))>>, nbrs)

\* Mutant of PostLoop: a post that raises ends the loop.
RECURSIVE PostLoopAbort(_, _, _)
PostLoopAbort(todo, ok, handed) ==
    IF todo = <<>> THEN handed
    ELSE IF Head(ok)
    THEN PostLoopAbort(Tail(todo), Tail(ok), Append(handed, Head(todo).key))
    ELSE Append(handed, Head(todo).key)

\* The loop over self.neighbors: the neighbors requests.post was called for,
\* in order.  ok[i] says whether the i-th post returned; a post that raises
\* RequestException is caught inside the loop, which goes on.
RECURSIVE PostLoop(_, _, _)
PostLoop(todo, ok, handed) ==
    IF todo = <<>> THEN handed
    ELSE IF Head(ok)
    THEN PostLoop(Tail(todo), Tail(ok), Append(handed, Head(todo).key))
    ELSE PostLoop(Tail(todo), Tail(ok), Append(handed, Head(todo).key))

(***************************************************************************)
(* State                                                                   *)
(***************************************************************************)
Routers == {"A", "B", "C"}

VARIABLES
    live,           \* the routers whose process runs in this scenario
    neighbors,      \* neighbors[r]: self.neighbors, a dict address -> cost
    my_network,     \* my_network[r]: self.my_network
    routing_table,  \* routing_table[r]: self.routing_table
    last,           \* last[r]: the last operation r completed (history)
    tick,           \* tick[r]: the thread of _periodic_update_loop
    handler,        \* handler[r][s]: the thread handling a request from s
    budget          \* the requests clients may still post, thread by thread

config == <<live, neighbors, my_network>>

\* Most requests the clients post in a run of the threads.
MaxRequests == 2
vars == <<live, neighbors, my_network, routing_table, last, tick, handler, budget>>

NoRequest ==
    [json_empty |-> TRUE, sender_address |-> "", table_is_dict |-> FALSE,
     routing_table |-> <<>>]

NoOp ==
    [op |-> "none", status |-> 0, request |-> NoRequest, pre |-> <<>>,
     update_happened |-> FALSE, payload |-> <<>>, handed |-> <<>>, ok |-> <<>>]

\* The periodic thread asleep (time.sleep), before its first tick.
\*   pc       "sleep", "iter" (in the loop over the table), "post" (in the
\*            loop over the neighbors)
\*   size     the size of the dict when the loop over it began
\*   items    the items the loop over the table has read
\*   source   the table the payload was made from (history)
\*   instants the values the table had, since the loop over it began, at
\*            moments when no handler was part-way through its loop (history)
\*   payload  tabela_para_enviar
\*   todo     the neighbors still to post to
\*   handed   the neighbors posted to in this tick, ok telling the outcome
Asleep ==
    [pc |-> "sleep", size |-> 0, items |-> <<>>, source |-> <<>>,
     instants |-> {}, payload |-> <<>>, todo |-> <<>>, handed |-> <<>>]

\* No request from this sender is being handled.
\*   idx  the number of entries of the posted table the loop has merged
\*   pre  the table when the handler began (history)
Idle ==
    [active |-> FALSE, request |-> NoRequest, idx |-> 0, pre |-> <<>>,
     update_happened |-> FALSE]

(***************************************************************************)
(* Scenario: one router, B, with neighbors A (link cost 2) and C (link     *)
(* cost 3); its neighbors and any other client post requests to it.        *)
(***************************************************************************)
\* Largest cost an entry of a posted table carries.
MaxCost == 1
\* Most entries in a posted table.
MaxPayload == 2

PayloadKeys == {NetKey(0, AddrBits), NetKey(3, AddrBits)}
\* What an entry of a posted table may be: a cost with a next_hop (which
\* the sender writes as its own next hop, or as the aggregate marker), or no
\* cost at all.
PayloadInfos ==
    {Info(c, "Z") : c \in 0..MaxCost}
        \cup {Info(0, SUMARIZED), [next_hop |-> "Z"]}

RECURSIVE Dicts(_, _, _)
\* The dicts of at most n items with keys from K and values from V.
Dicts(K, V, n) ==
    IF n = 0 THEN {<<>>}
    ELSE LET shorter == Dicts(K, V, n - 1)
         IN shorter \cup
            UNION {{Append(d, Item(k, v)) : k \in K \ Keys(d), v \in V} :
                     d \in {x \in shorter : Len(x) = n - 1}}

Payloads == Dicts(PayloadKeys, PayloadInfos, MaxPayload)

\* A request body: json_empty says request.json is falsy; sender_address is
\* "" when the field is missing; table_is_dict says routing_table is a dict.
Request(sender, table) ==
    [json_empty |-> FALSE, sender_address |-> sender, table_is_dict |-> TRUE,
     routing_table |-> table]

\* From the neighbors A and C: every table.  From a stranger X, with no
\* sender_address, with a routing_table that is no dict, with an empty body:
\* some tables.
Requests ==
    {Request(s, t) : s \in {"A", "C"}, t \in Payloads}
        \cup {Request(s, t) : s \in {"X", ""}, t \in {p \in Payloads : Len(p) <= 1}}
        \cup {[Request(s, <<>>) EXCEPT !.table_is_dict = FALSE] : s \in {"A", "X"}}
        \cup {NoRequest}

InitOne ==
    /\ live = {"B"}
    /\ neighbors = [r \in Routers |->
                      IF r = "B" THEN <<Item("A", 2), Item("C", 3)>> ELSE <<>>]
    /\ my_network = [r \in Routers |-> NetKey(2, AddrBits)]
    /\ routing_table = [r \in Routers |->
                          IF r \in live
                          THEN InitialTable(r, my_network[r], neighbors[r])
                          ELSE <<>>]
    /\ last = [r \in Routers |-> NoOp]
    /\ tick = [r \in Routers |-> Asleep]
    /\ handler = [r \in Routers |-> [s \in Routers |-> Idle]]
    /\ budget = MaxRequests

(***************************************************************************)
(* Operations, each as one step                                            *)
(***************************************************************************)
\* receive_update: router r handles request req.
Receive(r, req) ==
    LET res == ReceiveUpdate(routing_table[r], neighbors[r], req)
    IN /\ r \in live
       /\ routing_table' = [routing_table EXCEPT ![r] = res.table]
       /\ last' = [last EXCEPT ![r] =
                     [NoOp EXCEPT !.op = "receive", !.status = res.status,
                                  !.request = req, !.pre = routing_table[r],
                                  !.update_happened = res.update_happened]]
       /\ UNCHANGED <<config, tick, handler, budget>>

\* _periodic_update_loop: r's periodic thread is at its sleep, from which the
\* next tick starts.  The loop is `while True`, a RequestException is caught
\* inside the post loop and any other exception of a tick at line 68, so the
\* thread returns to the sleep after every tick.
AtSleep(r) == r \in live /\ tick[r].pc = "sleep"

\* send_updates_to_neighbors: router r summarizes its table and posts it to
\* each neighbor; ok[i] says whether the i-th post returned.
SendUpdates(r, ok) ==
    /\ AtSleep(r)
    /\ last' = [last EXCEPT ![r] =
                  [NoOp EXCEPT !.op = "send", !.pre = routing_table[r],
                               !.payload = TabelaParaEnviar(routing_table[r], routing_table[r]),
                               !.handed = PostLoop(neighbors[r], ok, <<>>),
                               !.ok = ok]]
    /\ UNCHANGED <<config, routing_table, tick, handler, budget>>

Next ==
    \/ \E r \in Routers, req \in Requests : Receive(r, req)
    \/ \E r \in Routers : \E ok \in [1..Len(neighbors[r]) -> BOOLEAN] : SendUpdates(r, ok)

Spec == InitOne /\ [][Next]_vars

(***************************************************************************)
(* Properties of the merge                                                 *)
(***************************************************************************)
\* Router r's last operation was an update it accepted (status 200).
Accepted(r) == last[r].op = "receive" /\ last[r].status = 200

\* The entries of the table posted in r's last request.
Posted(r) == Range(last[r].request.routing_table)

\* The cost r computes for a posted entry: link cost + advertised cost.
Candidate(r, e) ==
    LinkCost(neighbors[r], last[r].request.sender_address) + e.info.cost

\* C1: after an accepted update from neighbor S with link cost L, every
\* network N of the sender's table that was absent from the local table is in
\* the table as {cost: L + C, next_hop: S}, C being the cost S advertised.
C1_NewNetworkInserted ==
    \A r \in live : Accepted(r) =>
        \A e \in Posted(r) :
            ~Has(last[r].pre, e.key) =>
                /\ Has(routing_table[r], e.key)
                /\ Get(routing_table[r], e.key)
                       = Info(Candidate(r, e), last[r].request.sender_address)

\* An accepted update inserted a network the table did not hold.
C1_Witness ==
    \E r \in live : Accepted(r) /\
        \E e \in Posted(r) : ~Has(last[r].pre, e.key) /\ e.info.cost > 0

\* C2: after an accepted update from neighbor Y, an entry for N that existed
\* with a next_hop other than Y is {cost: L + C, next_hop: Y} exactly when
\* L + C is strictly less than the cost it had, and is what it was when
\* L + C is greater than or equal to that cost.
C2_ReplacedIffCheaper ==
    \A r \in live : Accepted(r) =>
        \A e \in Posted(r) :
            (Has(last[r].pre, e.key)
               /\ Get(last[r].pre, e.key).next_hop # last[r].request.sender_address) =>
                LET old == Get(last[r].pre, e.key)
                    new == Get(routing_table[r], e.key)
                    y == last[r].request.sender_address
                IN /\ (new = Info(Candidate(r, e), y)) <=> (Candidate(r, e) < old.cost)
                   /\ (Candidate(r, e) >= old.cost) => (new = old)

\* One accepted update replaced an entry by a cheaper route and left another,
\* for which it offered the cost the table already had, as it was.
C2_Witness ==
    \E r \in live : Accepted(r) /\
        \E e, f \in Posted(r) :
            /\ Has(last[r].pre, e.key) /\ Has(last[r].pre, f.key)
            /\ Get(last[r].pre, e.key).next_hop # last[r].request.sender_address
            /\ Get(last[r].pre, f.key).next_hop # last[r].request.sender_address
            /\ Candidate(r, e) < Get(last[r].pre, e.key).cost
            /\ Candidate(r, f) = Get(last[r].pre, f.key).cost

\* C3: after an accepted update from neighbor Y, an entry for N whose
\* next_hop was Y is {cost: L + C, next_hop: Y}, also when L + C is higher
\* than the cost it had.
C3_SameHopOverwritten ==
    \A r \in live : Accepted(r) =>
        \A e \in Posted(r) :
            (Has(last[r].pre, e.key)
               /\ Get(last[r].pre, e.key).next_hop = last[r].request.sender_address) =>
                Get(routing_table[r], e.key)
                    = Info(Candidate(r, e), last[r].request.sender_address)

\* An accepted update raised the cost of a route through its sender.
C3_Witness ==
    \E r \in live : Accepted(r) /\
        \E e \in Posted(r) :
            /\ Has(last[r].pre, e.key)
            /\ Get(last[r].pre, e.key).next_hop = last[r].request.sender_address
            /\ Candidate(r, e) > Get(last[r].pre, e.key).cost

(***************************************************************************)
(* Rejected requests                                                       *)
(***************************************************************************)
\* C7: a request whose sender_address is no key of the receiver's neighbors
\* ends in an error, and the table after it is the table before it.
C7_UnknownNeighborRejected ==
    \A r \in live :
        (last[r].op = "receive"
           /\ ~Has(neighbors[r], last[r].request.sender_address)) =>
            /\ last[r].status = 400
            /\ routing_table[r] = last[r].pre

\* A stranger posted a table with a new network and a cost.
C7_Witness ==
    \E r \in live :
        /\ last[r].op = "receive"
        /\ last[r].request.sender_address = "X"
        /\ last[r].request.table_is_dict
        /\ \E e \in Posted(r) : HasCost(e.info) /\ ~Has(last[r].pre, e.key)

\* C8: a request with no sender_address, or whose routing_table is not a
\* mapping, ends in an error, and the table is not changed.
C8_MalformedRejected ==
    \A r \in live :
        (last[r].op = "receive"
           /\ (last[r].request.sender_address = "" \/ ~last[r].request.table_is_dict)) =>
            /\ last[r].status = 400
            /\ routing_table[r] = last[r].pre

\* A neighbor posted a routing_table that is no mapping.
C8_Witness ==
    \E r \in live :
        /\ last[r].op = "receive"
        /\ ~last[r].request.json_empty
        /\ Has(neighbors[r], last[r].request.sender_address)
        /\ ~last[r].request.table_is_dict

(***************************************************************************)
(* Scenario: router B as above, in any state a run of updates from A and C *)
(* leaves it in: its initial table followed by learned entries.            *)
(***************************************************************************)
\* Most learned entries in a drawn table.
MaxLearned == 2

\* Keys a neighbor may have advertised: the two halves of a block, the
\* block itself, the same block written with host bits set, the block next
\* to it (which holds B's network), half of that one, an IPv6 network, a
\* string that is no network.
LearnedKeys ==
    {NetKey(0, AddrBits), NetKey(1, AddrBits), NetKey(0, AddrBits - 1),
     NetKey(1, AddrBits - 1), NetKey(2, AddrBits - 1), NetKey(3, AddrBits),
     Net6Key(0, AddrBits), OpaqueKey("D")}

LearnedInfos == {Info(2, "A"), Info(5, "A"), Info(3, "C")}

\* The network B was started with: in canonical form, or with host bits set
\* (as "10.0.1.5/24" has).
OwnNetworks == {NetKey(2, AddrBits), NetKey(3, AddrBits - 1)}

InitSum ==
    /\ live = {"B"}
    /\ neighbors = [r \in Routers |->
                      IF r = "B" THEN <<Item("A", 2), Item("C", 3)>> ELSE <<>>]
    /\ \E n \in OwnNetworks : my_network = [r \in Routers |-> n]
    /\ \E learned \in Dicts(LearnedKeys, LearnedInfos, MaxLearned) :
           routing_table = [r \in Routers |->
                              IF r \in live
                              THEN InitialTable(r, my_network[r], neighbors[r]) \o learned
                              ELSE <<>>]
    /\ last = [r \in Routers |-> NoOp]
    /\ tick = [r \in Routers |-> Asleep]
    /\ handler = [r \in Routers |-> [s \in Routers |-> Idle]]
    /\ budget = MaxRequests

NextSum ==
    \E r \in Routers : \E ok \in [1..Len(neighbors[r]) -> BOOLEAN] : SendUpdates(r, ok)

SpecSum == InitSum /\ [][NextSum]_vars

(***************************************************************************)
(* Properties of the summarization                                         *)
(***************************************************************************)
\* Router r's last operation was a send whose summarization did not raise.
Summarizing(r) == last[r].op = "send" /\ ~SummarizeRaises(last[r].pre)

\* The costs of the entries of table t whose network lies inside block b.
CostsInside(t, b) ==
    {t[j].info.cost : j \in {i \in 1..Len(t) :
        ~RaisesValueError(t[i].key) /\ SubnetOf(IpNetwork(t[i].key), b)}}

\* The entries of table t whose key names network b.
EntriesOf(t, b) ==
    {t[j].info : j \in {i \in 1..Len(t) :
        ~RaisesValueError(t[i].key) /\ IpNetwork(t[i].key) = b}}

\* What C5 says of the summary s of table t.
MinimumRule(t, s) ==
    \A i \in 1..Len(s) :
        IF EntriesOf(t, s[i].key) = {}
        THEN s[i].info = Info(SetMin(CostsInside(t, s[i].key)), SUMARIZED)
        ELSE s[i].info \in EntriesOf(t, s[i].key)

\* C5: in the table summarization produces, a block that no key of the
\* original table names has the aggregate marker as next_hop and the least
\* cost of the original entries whose network lies inside it, and a block
\* that a key of the original table names has that key's entry.
C5_AggregateCostIsMinimum ==
    \A r \in live : Summarizing(r) => MinimumRule(last[r].pre, last[r].payload)

\* Two keys of table t name the same network.
SameNetworkTwice(t) ==
    \E i, j \in 1..Len(t) :
        /\ i # j
        /\ ~RaisesValueError(t[i].key) /\ ~RaisesValueError(t[j].key)
        /\ IpNetwork(t[i].key) = IpNetwork(t[j].key)

\* The statement of C5 holds of the tables no two keys of which name the
\* same network.
C5_HoldsWithoutDuplicates ==
    \A r \in live : (Summarizing(r) /\ ~SameNetworkTwice(last[r].pre)) =>
        MinimumRule(last[r].pre, last[r].payload)

\* C6: every key of the table that is no network is in the table
\* summarization produces, with its entry.
C6_OpaqueKeysPassThrough ==
    \A r \in live : Summarizing(r) =>
        \A i \in 1..Len(last[r].pre) :
            RaisesValueError(last[r].pre[i].key) =>
                /\ Has(last[r].payload, last[r].pre[i].key)
                /\ Get(last[r].payload, last[r].pre[i].key) = last[r].pre[i].info

(***************************************************************************)
(* The same operations thread by thread.  The program takes no lock: the   *)
(* periodic thread and the handlers (Flask runs each request on a thread   *)
(* of its own) interleave between the iterations of their loops.           *)
(***************************************************************************)
\* No handler of the router is part-way through its loop over a posted table.
Quiet(hs) == \A s \in Routers : ~hs[s].active \/ hs[s].idx = 0

\* tick[r].instants once r's table is t and its handlers are hs.
Seen(r, t, hs) ==
    IF tick[r].pc = "iter" /\ Quiet(hs)
    THEN tick[r].instants \cup {t}
    ELSE tick[r].instants

\* The record of a handled request.
Handled(status, req, pre, happened) ==
    [NoOp EXCEPT !.op = "receive", !.status = status, !.request = req,
                 !.pre = pre, !.update_happened = happened]

\* The periodic thread wakes and enters the loop over routing_table.items().
TickBegin(r) ==
    /\ AtSleep(r)
    /\ tick' = [tick EXCEPT ![r] =
                  [Asleep EXCEPT !.pc = "iter",
                                 !.size = Len(routing_table[r]),
                                 !.instants = IF Quiet(handler[r])
                                              THEN {routing_table[r]} ELSE {}]]
    /\ UNCHANGED <<config, routing_table, last, handler, budget>>

\* Mutant of Posting: only the first neighbor is posted to.
PostingFirstOnly(r, t, source, payload) ==
    [t EXCEPT !.pc = IF neighbors[r] = <<>> THEN "sleep" ELSE "post",
              !.source = source, !.payload = payload,
              !.todo = IF neighbors[r] = <<>> THEN <<>> ELSE <<Head(neighbors[r])>>]

\* The state of the periodic thread once tabela_para_enviar is made.
Posting(r, t, source, payload) ==
    [t EXCEPT !.pc = IF neighbors[r] = <<>> THEN "sleep" ELSE "post",
              !.source = source, !.payload = payload, !.todo = neighbors[r]]

\* One iteration of the loop over the table: the dict has changed size
\* since the loop began (RuntimeError, caught at line 103: the table as it
\* is now is sent), or the next item is read, or the loop is over and the
\* items read are summarized.
TickIter(r) ==
    /\ r \in live
    /\ tick[r].pc = "iter"
    /\ LET t == routing_table[r]
           k == Len(tick[r].items)
       IN tick' = [tick EXCEPT ![r] =
            IF Len(t) # tick[r].size
            THEN Posting(r, tick[r], t, t)
            ELSE IF k < Len(t)
            THEN [tick[r] EXCEPT !.items = Append(tick[r].items, t[k + 1])]
            ELSE Posting(r, tick[r],
                         IF SummarizeRaises(tick[r].items) THEN t ELSE tick[r].items,
                         TabelaParaEnviar(tick[r].items, t))]
    /\ UNCHANGED <<config, routing_table, last, handler, budget>>

\* The periodic thread after one iteration of the loop over the neighbors.
Posted1(t) ==
    [t EXCEPT !.pc = IF Len(t.todo) = 1 THEN "sleep" ELSE "post",
              !.todo = Tail(t.todo),
              !.handed = Append(t.handed, Head(t.todo).key)]

\* requests.post to a neighbor that is not part of the scenario returns.
PostReturns(r) ==
    /\ r \in live
    /\ tick[r].pc = "post"
    /\ Head(tick[r].todo).key \notin live
    /\ tick' = [tick EXCEPT ![r] = Posted1(tick[r])]
    /\ UNCHANGED <<config, routing_table, last, handler, budget>>

\* requests.post raises RequestException; line 117 catches it.
PostRaises(r) ==
    /\ r \in live
    /\ tick[r].pc = "post"
    /\ tick' = [tick EXCEPT ![r] = Posted1(tick[r])]
    /\ UNCHANGED <<config, routing_table, last, handler, budget>>

\* A request that fails the checks before the loop is answered with 400.
RequestRejected(r, req) ==
    /\ r \in live
    /\ budget > 0
    /\ Rejects(neighbors[r], req)
    /\ last' = [last EXCEPT ![r] = Handled(400, req, routing_table[r], FALSE)]
    /\ budget' = budget - 1
    /\ UNCHANGED <<config, routing_table, tick, handler>>

\* A request that passes the checks reaches the loop over sender_table.
HandlerBegin(r, req) ==
    /\ r \in live
    /\ budget > 0
    /\ ~Rejects(neighbors[r], req)
    /\ ~handler[r][req.sender_address].active
    /\ req.routing_table # <<>>
    /\ handler' = [handler EXCEPT ![r][req.sender_address] =
                     [Idle EXCEPT !.active = TRUE, !.request = req,
                                  !.pre = routing_table[r]]]
    /\ budget' = budget - 1
    /\ UNCHANGED <<config, routing_table, last, tick>>

\* One iteration of the loop over sender_table in the handler of the request
\* from s: the entry has no cost (KeyError: the request ends with 500), or
\* it is merged, and after the last entry the request ends with 200.
HandlerStep(r, s) ==
    /\ r \in live
    /\ handler[r][s].active
    /\ LET h == handler[r][s]
           e == h.request.routing_table[h.idx + 1]
           link_cost == LinkCost(neighbors[r], s)
           t == IF HasCost(e.info)
                THEN MergeEntry(routing_table[r], s, link_cost, e.key, e.info)
                ELSE routing_table[r]
           happened == h.update_happened \/
                         (HasCost(e.info) /\
                          Accepts(routing_table[r], s, link_cost + e.info.cost, e.key))
           over == ~HasCost(e.info) \/ h.idx + 1 = Len(h.request.routing_table)
           hs == [handler[r] EXCEPT ![s] =
                    IF over THEN Idle
                    ELSE [h EXCEPT !.idx = h.idx + 1, !.update_happened = happened]]
       IN /\ routing_table' = [routing_table EXCEPT ![r] = t]
          /\ handler' = [handler EXCEPT ![r] = hs]
          /\ last' = IF over
                     THEN [last EXCEPT ![r] =
                             Handled(IF HasCost(e.info) THEN 200 ELSE 500,
                                     h.request, h.pre, happened)]
                     ELSE last
          /\ tick' = [tick EXCEPT ![r].instants = Seen(r, t, hs)]
    /\ UNCHANGED <<config, budget>>

\* Requests posted to B while its threads interleave: tables of entries of
\* cost 0, or with no cost, from A and from C; one from a stranger.
ThreadInfos == {Info(0, "Z"), [next_hop |-> "Z"]}
ThreadRequests ==
    {Request(s, t) : s \in {"A", "C"},
                     t \in Dicts(PayloadKeys, ThreadInfos, MaxPayload) \ {<<>>}}
        \cup {Request("X", <<>>)}

NextThreads ==
    \/ \E r \in Routers : TickBegin(r)
    \/ \E r \in Routers : TickIter(r)
    \/ \E r \in Routers : PostReturns(r)
    \/ \E r \in Routers : PostRaises(r)
    \/ \E r \in Routers, req \in ThreadRequests : RequestRejected(r, req)
    \/ \E r \in Routers, req \in ThreadRequests : HandlerBegin(r, req)
    \/ \E r, s \in Routers : HandlerStep(r, s)

SpecThreads == InitOne /\ [][NextThreads]_vars

\* C9: the table a tick summarizes and sends is the routing table as it was
\* at one moment at which no merge was part-way through: once the payload is
\* made, its source is one of the values the table had at such a moment
\* since the tick began to copy it.
C9_SnapshotIsOneInstant ==
    \A r \in live : tick[r].pc = "post" => tick[r].source \in tick[r].instants

\* A merge was part-way through when the periodic thread read the table.
C9_Witness ==
    \E r \in live : tick[r].pc = "post" /\ tick[r].source \notin tick[r].instants

(***************************************************************************)
(* Properties of the periodic send                                         *)
(***************************************************************************)
\* The number of times x occurs in sequence q.
Count(q, x) == Cardinality({i \in 1..Len(q) : q[i] = x})

\* C10: in every tick each configured neighbor is handed the payload exactly
\* once, whether the posts to the others return or raise, and after a tick
\* in which posts raised the periodic thread is back at its sleep, from which
\* the next tick starts.
C10_EachNeighborOncePerTick ==
    \A r \in live : last[r].op = "send" =>
        /\ \A n \in Keys(neighbors[r]) : Count(last[r].handed, n) = 1
        /\ AtSleep(r)

\* A tick whose first post raised and whose second returned.
C10_Witness ==
    \E r \in live :
        /\ last[r].op = "send"
        /\ Len(last[r].ok) = 2
        /\ ~last[r].ok[1] /\ last[r].ok[2]
        /\ last[r].handed = <<"A", "C">>

(***************************************************************************)
(* Three routers in a line: A - B - C, both links of cost 5                *)
(***************************************************************************)
\* Costs count up without end when an aggregate is advertised back to the
\* router it came from; a delivery that would store a larger cost is left out.
MaxLineCost == 20

\* The networks administered by A, B and C, pairwise distinct: no two of
\* them collapsible (all of one length; of two lengths), A's and C's the two
\* halves of one block, B's and C's the two halves of one block, C's inside
\* A's, A's written with host bits set.
LineNetworks ==
    { <<NetKey(0, AddrBits), NetKey(2, AddrBits), NetKey(4, AddrBits)>>,
      <<NetKey(0, AddrBits), NetKey(2, AddrBits - 1), NetKey(4, AddrBits)>>,
      <<NetKey(0, AddrBits), NetKey(4, AddrBits), NetKey(1, AddrBits)>>,
      <<NetKey(0, AddrBits), NetKey(2, AddrBits), NetKey(3, AddrBits)>>,
      <<NetKey(0, AddrBits - 1), NetKey(4, AddrBits), NetKey(0, AddrBits)>>,
      <<NetKey(1, AddrBits - 1), NetKey(4, AddrBits), NetKey(6, AddrBits)>> }

InitLine ==
    /\ live = Routers
    /\ neighbors = [r \in Routers |->
                      IF r = "B" THEN <<Item("A", 5), Item("C", 5)>>
                      ELSE <<Item("B", 5)>>]
    /\ \E nets \in LineNetworks :
           my_network = [r \in Routers |->
                           IF r = "A" THEN nets[1] ELSE IF r = "B" THEN nets[2] ELSE nets[3]]
    /\ routing_table = [r \in Routers |-> InitialTable(r, my_network[r], neighbors[r])]
    /\ last = [r \in Routers |-> NoOp]
    /\ tick = [r \in Routers |-> Asleep]
    /\ handler = [r \in Routers |-> [s \in Routers |-> Idle]]
    /\ budget = MaxRequests

\* No entry of the table costs more than the bound.
WithinCost(table) ==
    \A i \in 1..Len(table) : table[i].info.cost <= MaxLineCost

\* The first half of a tick of router r: the table is summarized.
TickSnapshot(r) ==
    /\ AtSleep(r)
    /\ tick' = [tick EXCEPT ![r] =
                  Posting(r, Asleep, routing_table[r],
                          TabelaParaEnviar(routing_table[r], routing_table[r]))]
    /\ UNCHANGED <<config, routing_table, last, handler, budget>>

\* One iteration of the loop over the neighbors: requests.post reaches the
\* neighbor n, whose receive_update runs and answers; after the last
\* neighbor the periodic thread is back at its sleep.
Deliver(r) ==
    /\ r \in live
    /\ tick[r].pc = "post"
    /\ \E n \in {Head(tick[r].todo).key} :
       \E res \in {ReceiveUpdate(routing_table[n], neighbors[n],
                                 Request(r, tick[r].payload))} :
          /\ n \in live
          /\ WithinCost(res.table)
          /\ routing_table' = [routing_table EXCEPT ![n] = res.table]
          /\ tick' = [tick EXCEPT ![r] =
                        IF Len(tick[r].todo) = 1 THEN Asleep ELSE Posted1(tick[r])]
    /\ UNCHANGED <<config, last, handler, budget>>

NextLine ==
    \/ \E r \in Routers : TickSnapshot(r)
    \/ \E r \in Routers : Deliver(r)

\* Every router keeps ticking and every post is delivered.
FairLine ==
    \A r \in Routers : WF_vars(TickSnapshot(r)) /\ WF_vars(Deliver(r))

SpecLine == InitLine /\ [][NextLine]_vars /\ FairLine

(***************************************************************************)
(* Properties of the line                                                  *)
(***************************************************************************)
\* Router r's table holds the network administered by router o at the given
\* cost and next_hop.
HoldsNetworkOf(r, o, cost, hop) ==
    \E i \in 1..Len(routing_table[r]) :
        /\ ~RaisesValueError(routing_table[r][i].key)
        /\ IpNetwork(routing_table[r][i].key) = IpNetwork(my_network[o])
        /\ routing_table[r][i].info = Info(cost, hop)

Converged ==
    /\ HoldsNetworkOf("A", "C", 10, "B")
    /\ HoldsNetworkOf("C", "A", 10, "B")

\* Every administered network is written without host bits, and no two of
\* them can be collapsed: neither contains the other and they are not the
\* two halves of one block.
Canonical == \A r \in Routers : IpNetwork(my_network[r]) = my_network[r]

NonCollapsible ==
    \A r, o \in Routers : r # o =>
        LET a == IpNetwork(my_network[r])
            b == IpNetwork(my_network[o])
        IN /\ ~SubnetOf(a, b)
           /\ ~(a.plen = b.plen /\ Supernet(a) = Supernet(b))

C4_BoundNotReached ==
    (Canonical /\ NonCollapsible) =>
        \A r \in Routers : \A i \in 1..Len(routing_table[r]) :
            routing_table[r][i].info.cost < MaxLineCost

(***************************************************************************)
(* The fallback of the summarization                                       *)
(***************************************************************************)
\* C11: when the summarization of the table raises (collapse_addresses on
\* networks of both versions), the tick posts to every neighbor and the
\* table it posts is the routing table itself, every key and entry as it is.
C11_FallbackSendsWholeTable ==
    \A r \in live : (last[r].op = "send" /\ SummarizeRaises(last[r].pre)) =>
        /\ last[r].payload = last[r].pre
        /\ \A n \in Keys(neighbors[r]) : Count(last[r].handed, n) = 1

\* A tick on a table with an IPv4 and an IPv6 network and an opaque key.
C11_Witness ==
    \E r \in live :
        /\ last[r].op = "send"
        /\ SummarizeRaises(last[r].pre)
        /\ \E i \in 1..Len(last[r].payload) : last[r].payload[i].key.kind = "v6"
        /\ \E i \in 1..Len(last[r].payload) : last[r].payload[i].key.kind = "opaque"
        /\ last[r].handed = <<"A", "C">>

(***************************************************************************)
(* Construction: Router.__init__ on any identity, network and neighbors    *)
(***************************************************************************)
MaxNeighbors == 2

\* Link costs of the configuration file.
ConfigCosts == {2, 5}

\* The networks a router may be started with: IPv4 written canonically and
\* with host bits set, IPv6.
ConfigNetworks ==
    {NetKey(2, AddrBits), NetKey(3, AddrBits - 1), NetKey(0, 0), Net6Key(1, AddrBits)}

\* One router is about to be constructed; its neighbors are any dict of
\* addresses (its own among them) to link costs.
InitConfig ==
    /\ \E r \in Routers : live = {r}
    /\ \E n \in ConfigNetworks : my_network = [r \in Routers |-> n]
    /\ \E d \in Dicts(Routers, ConfigCosts, MaxNeighbors) :
           neighbors = [r \in Routers |-> IF r \in live THEN d ELSE <<>>]
    /\ routing_table = [r \in Routers |-> <<>>]
    /\ last = [r \in Routers |-> NoOp]
    /\ tick = [r \in Routers |-> Asleep]
    /\ handler = [r \in Routers |-> [s \in Routers |-> Idle]]
    /\ budget = MaxRequests

\* Router.__init__ up to the start of the periodic thread.
Construct(r) ==
    /\ r \in live
    /\ last[r].op = "none"
    /\ routing_table' = [routing_table EXCEPT
                           ![r] = InitialTable(r, my_network[r], neighbors[r])]
    /\ last' = [last EXCEPT ![r] = [NoOp EXCEPT !.op = "init"]]
    /\ UNCHANGED <<config, tick, handler, budget>>

NextInit == \E r \in Routers : Construct(r)

SpecInit == InitConfig /\ [][NextInit]_vars

\* C12: right after construction the table holds the administered network
\* at cost 0 with the router's own address as next_hop, one entry per
\* configured neighbor at its link cost with the neighbor as next_hop, and
\* nothing else.
C12_InitialTableExact ==
    \A r \in live : last[r].op = "init" =>
        /\ Range(routing_table[r]) =
               {Item(my_network[r], Info(0, r))}
                   \cup {Item(OpaqueKey(n.key), Info(n.info, n.key)) : n \in Range(neighbors[r])}
        /\ Len(routing_table[r]) = 1 + Len(neighbors[r])

\* A router constructed with two neighbors, itself one of them.
C12_Witness ==
    \E r \in live :
        /\ last[r].op = "init"
        /\ Len(neighbors[r]) = 2
        /\ r \in Keys(neighbors[r])
        /\ Len(routing_table[r]) = 3

(***************************************************************************)
(* Properties of the table over time                                       *)
(***************************************************************************)
\* C13: no step (a tick, a merged update, a rejected update) removes a key
\* from a routing table, so a key once present stays.
C13_KeysNeverShrink ==
    [][\A r \in Routers : Keys(routing_table[r]) \subseteq Keys(routing_table'[r])]_vars

\* A merge has rewritten an entry and added a key; no key went.
C13_Witness ==
    \E r \in live :
        /\ Accepted(r)
        /\ Keys(last[r].pre) # Keys(routing_table[r])
        /\ Keys(last[r].pre) \subseteq Keys(routing_table[r])
        /\ \E i \in 1..Len(last[r].pre) :
               /\ last[r].pre[i].info.next_hop = last[r].request.sender_address
               /\ Get(routing_table[r], last[r].pre[i].key).cost > last[r].pre[i].info.cost

\* C14: in a network of routers (link costs positive, no router its own
\* neighbor) every router's table holds, in every reachable state, its
\* administered network at cost 0 with its own address as next_hop.
C14_OwnNetworkKept ==
    \A r \in live :
        /\ Has(routing_table[r], my_network[r])
        /\ Get(routing_table[r], my_network[r]) = Info(0, r)

\* B has just posted to A a table that holds A's own network, at a cost B
\* learned from A, and A's entry for it is as it was.
C14_Witness ==
    /\ live = Routers
    /\ tick["B"].pc = "post"
    /\ tick["B"].handed = <<"A">>
    /\ Has(tick["B"].payload, my_network["A"])
    /\ Get(tick["B"].payload, my_network["A"]).cost > 0
    /\ Get(routing_table["A"], my_network["A"]) = Info(0, "A")

(***************************************************************************)
(* The flag update_happened                                                *)
(***************************************************************************)
\* The handler wrote the entry for e of the posted table: the network was
\* not in the table, or the candidate was cheaper, or the route went through
\* the sender.
Written(r, e) ==
    IF ~Has(last[r].pre, e.key) THEN TRUE
    ELSE \/ Candidate(r, e) < Get(last[r].pre, e.key).cost
         \/ Get(last[r].pre, e.key).next_hop = last[r].request.sender_address

\* C15, as it holds: for an accepted update the flag is true exactly when
\* the handler wrote at least one entry; a table that differs from the table
\* before has the flag true, and the flag is also true when every written
\* entry is a route through the sender rewritten with the cost it had.
C15_FlagIffEntryWritten ==
    \A r \in live : Accepted(r) =>
        /\ last[r].update_happened <=> \E e \in Posted(r) : Written(r, e)
        /\ routing_table[r] # last[r].pre => last[r].update_happened

\* An accepted update whose flag is true and that left the table as it was.
C15_Witness ==
    \E r \in live :
        /\ Accepted(r)
        /\ last[r].update_happened
        /\ routing_table[r] = last[r].pre

\* C15 as stated: for an accepted update the flag is true exactly when the
\* table after the merge differs from the table before.
C15_FlagIffTableDiffers ==
    \A r \in live : Accepted(r) =>
        (last[r].update_happened <=> routing_table[r] # last[r].pre)

(***************************************************************************)
(* Two updates handled at the same time                                    *)
(***************************************************************************)
\* What the entries of the two posted tables carry.
TwoInfos == {Info(c, "Z") : c \in 0..MaxCost}
TwoTables == Dicts(PayloadKeys, TwoInfos, MaxPayload) \ {<<>>}

\* Router s has posted table t to B (the record of s's last operation).
PostedTo(t, pre) == [NoOp EXCEPT !.op = "post", !.request = t, !.pre = pre]

\* B, just constructed, has received a request from A and one from C; both
\* have passed the checks of lines 159-176 and neither handler has merged
\* an entry yet.
InitTwo ==
    /\ live = {"B"}
    /\ neighbors = [r \in Routers |->
                      IF r = "B" THEN <<Item("A", 2), Item("C", 3)>> ELSE <<>>]
    /\ my_network = [r \in Routers |-> NetKey(2, AddrBits)]
    /\ routing_table = [r \in Routers |->
                          IF r \in live
                          THEN InitialTable(r, my_network[r], neighbors[r])
                          ELSE <<>>]
    /\ \E ta, tc \in TwoTables :
          /\ last = [r \in Routers |->
                       IF r = "A" THEN PostedTo(Request("A", ta), routing_table["B"])
                       ELSE IF r = "C" THEN PostedTo(Request("C", tc), routing_table["B"])
                       ELSE NoOp]
          /\ handler = [r \in Routers |-> [s \in Routers |->
                          IF r = "B" /\ s \in {"A", "C"}
                          THEN [Idle EXCEPT !.active = TRUE,
                                            !.request = last[s].request,
                                            !.pre = routing_table[r]]
                          ELSE Idle]]
    /\ tick = [r \in Routers |-> Asleep]
    /\ budget = 0

NextTwo == \E r, s \in Routers : HandlerStep(r, s)

SpecTwo == InitTwo /\ [][NextTwo]_vars

\* The table after the request of s1 and then that of s2 are merged into
\* table t, each as a whole.
OneAfterTheOther(t, s1, s2) ==
    ReceiveUpdate(ReceiveUpdate(t, neighbors["B"], last[s1].request).table,
                  neighbors["B"], last[s2].request).table

\* C16: once the two handlers are through, the table is the one left by the
\* two merges applied one after the other, in one of the two orders (as
\* dicts: the same keys with the same entries).
C16_MergesSerializable ==
    (\A s \in Routers : ~handler["B"][s].active) =>
        \/ Range(routing_table["B"]) = Range(OneAfterTheOther(last["A"].pre, "A", "C"))
        \/ Range(routing_table["B"]) = Range(OneAfterTheOther(last["A"].pre, "C", "A"))

\* Both handlers are through and the table is that of neither order.
C16_Witness ==
    /\ \A s \in Routers : ~handler["B"][s].active
    /\ Range(routing_table["B"]) # Range(OneAfterTheOther(last["A"].pre, "A", "C"))
    /\ Range(routing_table["B"]) # Range(OneAfterTheOther(last["A"].pre, "C", "A"))

(***************************************************************************)
(* Stability of the line                                                   *)
(***************************************************************************)
\* C17: in the static line, with no failures, the tables stop changing and
\* no stored cost grows without bound: no path of the line costs more than
\* 10, and no stored cost reaches MaxLineCost.
C17_CostsStayBounded ==
    \A r \in Routers : \A i \in 1..Len(routing_table[r]) :
        routing_table[r][i].info.cost < MaxLineCost

(***************************************************************************)
(* The next_hop of a posted entry                                          *)
(***************************************************************************)
\* The request req with h as the next_hop of every entry of its table.
WithHop(req, h) ==
    [req EXCEPT !.routing_table =
        [i \in 1..Len(req.routing_table) |->
            Item(req.routing_table[i].key,
                 [req.routing_table[i].info EXCEPT !.next_hop = h])]]

\* C18: the table a request leaves is the table the same request would
\* leave with any other next_hop in its entries (so two requests that
\* differ in those fields only leave the same table), and every entry the
\* handler wrote has the sender as next_hop; the aggregate marker is not
\* stored.
C18_PostedHopIgnored ==
    \A r \in live : last[r].op = "receive" =>
        /\ \A h \in {"Z", SUMARIZED, r, last[r].request.sender_address} :
               ReceiveUpdate(last[r].pre, neighbors[r], WithHop(last[r].request, h)).table
                   = routing_table[r]
        /\ \A i \in 1..Len(routing_table[r]) :
               \/ routing_table[r][i] \in Range(last[r].pre)
               \/ routing_table[r][i].info.next_hop = last[r].request.sender_address
        /\ \A i \in 1..Len(routing_table[r]) :
               routing_table[r][i].info.next_hop # SUMARIZED

\* An accepted update inserted a network posted with the aggregate marker
\* and replaced an entry by one posted with another next_hop.
C18_Witness ==
    \E r \in live : Accepted(r) /\
        \E e, f \in Posted(r) :
            /\ e.info.next_hop = SUMARIZED /\ ~Has(last[r].pre, e.key)
            /\ f.info.next_hop = "Z" /\ Has(last[r].pre, f.key)
            /\ Get(routing_table[r], f.key) # Get(last[r].pre, f.key)
            /\ Get(routing_table[r], e.key).next_hop = last[r].request.sender_address

(***************************************************************************)
(* A request that fails part-way                                           *)
(***************************************************************************)
\* C19: a request from a neighbor that ends in an error (status 500: an
\* entry without a cost) leaves the table as it was before the request.
C19_AllOrNothing ==
    \A r \in live :
        (last[r].op = "receive" /\ last[r].status = 500) =>
            routing_table[r] = last[r].pre

\* A request ended with status 500 after its first entry was merged.
C19_Witness ==
    \E r \in live :
        /\ last[r].op = "receive" /\ last[r].status = 500
        /\ Len(last[r].request.routing_table) = 2
        /\ ~HasCost(last[r].request.routing_table[2].info)
        /\ routing_table[r] # last[r].pre

(***************************************************************************)
(* What a router says of its own network                                   *)
(***************************************************************************)
\* Payload p holds a block that covers network n at cost 0.
CoversAtCostZero(p, n) ==
    \E i \in 1..Len(p) :
        /\ ~RaisesValueError(p[i].key)
        /\ p[i].key.kind = n.kind
        /\ SubnetOf(IpNetwork(n), IpNetwork(p[i].key))
        /\ p[i].info.cost = 0

\* C20: the table a router posts in a tick holds a block that covers the
\* router's own network, at cost 0.
C20_OwnNetworkAdvertised ==
    \A r \in live : tick[r].pc = "post" =>
        CoversAtCostZero(tick[r].payload, my_network[r])

\* A router posts a table whose only block over its own network is one it
\* learned from its neighbor.
C20_Witness ==
    \E r \in live :
        /\ tick[r].pc = "post"
        /\ ~CoversAtCostZero(tick[r].payload, my_network[r])
        /\ \E i \in 1..Len(tick[r].payload) :
               /\ SubnetOf(IpNetwork(my_network[r]), IpNetwork(tick[r].payload[i].key))
               /\ tick[r].payload[i].info.next_hop \in Keys(neighbors[r])

====
